---- MODULE Spec2Model ----
(***************************************************************************)
(* A model of the Conflux Go SDK client (client.go): the retrying RPC      *)
(* transport, the transaction default resolver, the batched revert-rate    *)
(* calculator and the contract deployment workflow.                        *)
(*                                                                         *)
(* Each component has its own specification (SpecRetry, SpecResolve,       *)
(* SpecRates, SpecDeploy) over the same variables; the variables of the    *)
(* components that a specification does not run stay at their idle values. *)
(***************************************************************************)
EXTENDS Integers, Sequences, FiniteSets, TLC

VARIABLES
    \* ---- retrying transport (rpcClientWithRetry) ----
    rpcRequester,   \* client.rpcRequester: [kind, retryCount, interval]
    op,             \* the method in progress: "none", "Call" or "BatchCall"
    cpc,            \* position inside Call/BatchCall
    remain,         \* the local variable remain
    attempts,       \* history: calls made on the inner transport
    sleeps,         \* history: time.Sleep(r.interval) calls made
    err,            \* the local variable err: 0 is nil, k the error of attempt k
    ret,            \* what the call returned
    \* ---- transaction default resolver (ApplyUnsignedTransactionDefault) ----
    client,         \* the receiver: [isNil, accountManager]
    tx,             \* the *types.UnsignedTransaction being resolved
    entry,          \* history: tx as it was on entry
    step,           \* the step of the resolver to run next (1..5)
    rstatus,        \* "idle", "running", "ok", "err" or "panic"
    rerr,           \* the step whose error was returned, "" if none
    calls,          \* history: the RPC methods issued, in order
    amResult,       \* history: what accountManager.GetDefault() answered
    estReq,         \* history: the CallRequest sent to the estimation RPC
    nodePrice,      \* history: the price cfx_gasPrice answered with; {} if none
    \* ---- batched revert rates (BatchGetBlockRevertRates) ----
    nodeRisk,       \* the node: hash -> answer of cfx_getConfirmationRiskByHash
    nodeBlock,      \* the node: hash -> answer of cfx_getBlockByHash
    blockhashs,     \* the argument: a sequence of hashes and nil placeholders
    bpc,            \* position inside BatchGetBlockRevertRates
    risks,          \* the local slice risks
    bElems,         \* the local slice bElems
    noRiskBlockhashs, \* the local slice noRiskBlockhashs
    indexMap,       \* the local map indexMap: hash -> positions
    summarys,       \* the local slice summarys
    batches,        \* history: the batches handed to BatchCallRPC, in order
    bret,           \* what BatchGetBlockRevertRates returned
    singleRet,      \* what GetBlockRevertRateByHash returned, and for which hash
    \* ---- contract deployment (DeployContract) ----
    option,         \* the argument option: [isNil, Timeout, tx]
    dpc,            \* position of the goroutine DeployContract starts
    panicking,      \* the goroutine is unwinding from a runtime panic
    result,         \* the ContractDeployResult: Error, TransactionHash, DeployedContract
    outcome,        \* history: the terminal state the workflow reached, or "none"
    doneClosed,     \* close(doneChan) has run
    notifications,  \* history: values delivered on doneChan
    mpc,            \* position of the caller (main)
    now,            \* the clock, in seconds since DeployContract was called
    timeoutAt,      \* when the channel of time.After delivers; {} before it is made
    nextTick,       \* when the ticker delivers next; {} before it is made
    timeoutReady,   \* the timeout channel holds a value
    tickReady,      \* the ticker channel holds a value
    queries,        \* history: GetTransactionByHash calls of the polling loop
    lastAnswer,     \* history: what the last of them answered
    sentAt,         \* history: the clock when SendTransaction returned the hash; {} before
    recvAt          \* history: the outcome when the caller began to receive

retryVars == <<rpcRequester, op, cpc, remain, attempts, sleeps, err, ret>>
resolveVars == <<client, tx, entry, step, rstatus, rerr, calls, amResult, estReq,
                 nodePrice>>

ratesVars == <<nodeRisk, nodeBlock, blockhashs, bpc, risks, bElems, noRiskBlockhashs,
               indexMap, summarys, batches, bret, singleRet>>

deployVars == <<option, dpc, panicking, result, outcome, doneClosed, notifications, mpc,
                now, timeoutAt, nextTick, timeoutReady, tickReady, queries, lastAnswer,
                sentAt, recvAt>>

vars == <<retryVars, resolveVars, ratesVars, deployVars>>

\* what the actions of one component leave alone
notRetry == <<resolveVars, ratesVars, deployVars>>
notResolve == <<retryVars, ratesVars, deployVars>>
notRates == <<retryVars, resolveVars, deployVars>>
notDeploy == <<retryVars, ratesVars>>

----------------------------------------------------------------------------
(* Bounds of the model *)

\* largest retryCount passed to NewClientWithRetry
MaxRetryCount == 3
\* largest retryInterval passed to NewClientWithRetry, in seconds
MaxInterval == 2
\* largest number the node answers with
MaxNodeValue == 2
\* longest blockhashs argument
MaxHashes == 3
\* the largest risk value, standing for constants.MaxUint256 = 2^256 - 1
MaxRisk == 3
\* the non-zero option.Timeout a caller passes, in seconds
UserTimeout == 5
\* the longest time SendRawTransaction takes to answer, in seconds
MaxSubmitDelay == 3

----------------------------------------------------------------------------
(* Retrying transport: NewClientWithRetry, rpcClientWithRetry.Call/BatchCall *)

\* time.Second, in the model's unit of time (seconds)
Second == 1

\* NewClientWithRetry: the requester the client ends up with
NewClientWithRetry(retryCount, retryInterval) ==
    IF retryCount = 0
    THEN [kind |-> "rpcClient", retryCount |-> 0, interval |-> 0]
    ELSE [kind |-> "rpcClientWithRetry", retryCount |-> retryCount,
          interval |-> IF retryInterval = 0 THEN Second ELSE retryInterval]

\* remain := r.retryCount, off by one
InitialRemain_OffByOne(r) == r.retryCount + 1

\* remain := r.retryCount
InitialRemain(r) == r.retryCount

NoReturn == [kind |-> "none", cause |-> 0, wrapped |-> FALSE]
ReturnNil == [kind |-> "nil", cause |-> 0, wrapped |-> FALSE]
\* return err
ReturnErr(e) == [kind |-> "err", cause |-> e, wrapped |-> FALSE]
\* the wrapped error of the first attempt, whatever failed last
ReturnWrapped_FirstError(e) == [kind |-> "err", cause |-> 1, wrapped |-> TRUE]

\* return types.WrapError(err, msg)
ReturnWrapped(e) == [kind |-> "err", cause |-> e, wrapped |-> TRUE]

Methods == {"Call", "BatchCall"}

\* A caller invokes client.rpcRequester.Call or .BatchCall
Invoke(o) ==
    /\ cpc = "idle"
    /\ op' = o
    /\ cpc' = "first"
    /\ UNCHANGED <<rpcRequester, remain, attempts, sleeps, err, ret>>
    /\ UNCHANGED notRetry

\* rpc.Client as the requester (retryCount 0): the call is one inner attempt
DirectCall(o, ok) ==
    /\ op = o
    /\ cpc = "first"
    /\ rpcRequester.kind = "rpcClient"
    /\ attempts' = attempts + 1
    /\ err' = IF ok THEN 0 ELSE attempts + 1
    /\ ret' = IF ok THEN ReturnNil ELSE ReturnErr(attempts + 1)
    /\ cpc' = "returned"
    /\ UNCHANGED <<rpcRequester, op, remain, sleeps>>
    /\ UNCHANGED notRetry

\* err := r.inner.Call(...); the two early returns; remain := r.retryCount
FirstAttempt(o, ok) ==
    /\ op = o
    /\ cpc = "first"
    /\ rpcRequester.kind = "rpcClientWithRetry"
    /\ attempts' = attempts + 1
    /\ err' = IF ok THEN 0 ELSE attempts + 1
    /\ IF ok
       THEN /\ ret' = ReturnNil
            /\ cpc' = "returned"
            /\ UNCHANGED remain
       ELSE IF rpcRequester.retryCount <= 0
            THEN /\ ret' = ReturnErr(attempts + 1)
                 /\ cpc' = "returned"
                 /\ UNCHANGED remain
            ELSE /\ remain' = InitialRemain(rpcRequester)
                 /\ cpc' = "loop"
                 /\ UNCHANGED ret
    /\ UNCHANGED <<rpcRequester, op, sleeps>>
    /\ UNCHANGED notRetry

\* an iteration that goes on after a successful attempt while budget remains
RetryAttempt_NoEarlyReturn(o, ok) ==
    /\ op = o
    /\ cpc = "loop"
    /\ attempts' = attempts + 1
    /\ err' = IF ok THEN 0 ELSE attempts + 1
    /\ remain' = remain - 1
    /\ IF remain - 1 = 0
       THEN /\ ret' = IF ok THEN ReturnNil ELSE ReturnWrapped(attempts + 1)
            /\ cpc' = "returned"
       ELSE /\ ret' = ret
            /\ cpc' = IF rpcRequester.interval > 0 THEN "sleep" ELSE "loop"
    /\ UNCHANGED <<rpcRequester, op, sleeps>>
    /\ UNCHANGED notRetry

\* one iteration of the for loop up to the sleep
RetryAttempt(o, ok) ==
    /\ op = o
    /\ cpc = "loop"
    /\ attempts' = attempts + 1
    /\ err' = IF ok THEN 0 ELSE attempts + 1
    /\ IF ok
       THEN /\ ret' = ReturnNil
            /\ cpc' = "returned"
            /\ UNCHANGED remain
       ELSE /\ remain' = remain - 1
            /\ IF remain - 1 = 0
               THEN /\ ret' = ReturnWrapped(attempts + 1)
                    /\ cpc' = "returned"
               ELSE /\ ret' = ret
                    /\ cpc' = IF rpcRequester.interval > 0 THEN "sleep" ELSE "loop"
    /\ UNCHANGED <<rpcRequester, op, sleeps>>
    /\ UNCHANGED notRetry

\* time.Sleep(r.interval) at the end of an iteration
Sleep(o) ==
    /\ op = o
    /\ cpc = "sleep"
    /\ sleeps' = sleeps + 1
    /\ cpc' = "loop"
    /\ UNCHANGED <<rpcRequester, op, remain, attempts, err, ret>>
    /\ UNCHANGED notRetry

----------------------------------------------------------------------------
(* Transaction default resolver: Client.ApplyUnsignedTransactionDefault *)

\* values the node answers with (nonce, gas price, epoch number, estimate)
NodeValues == 0..MaxNodeValue
\* the value of a numeric field the caller set before the call
UserValue == MaxNodeValue + 5
\* constants.MinGasprice
MinGasprice == 1

\* An optional field (a Go pointer) is the empty set when nil, {v} when set
IsNil(f) == f = {}
Fields == {"from", "nonce", "gasPrice", "epochHeight", "gas", "storageLimit"}

\* the transactions a caller can pass in: each field set or not
EntryTxs ==
    [from : {{}, {"user"}}, nonce : {{}, {UserValue}}, gasPrice : {{}, {UserValue}},
     epochHeight : {{}, {UserValue}}, gas : {{}, {UserValue}},
     storageLimit : {{}, {UserValue}}]

NilTx == [f \in Fields |-> {}]
NoRequest == [sent |-> FALSE, from |-> {}, gasPrice |-> {}, storageLimit |-> {},
              gas |-> {}, nonce |-> {}]

\* the client configurations: a nil *Client, or one with or without account manager
Clients == [isNil : BOOLEAN, accountManager : {"nil", "set"}]

\* CallRequest.FillByUnsignedTx
FillByUnsignedTx(t) ==
    [sent |-> TRUE, from |-> t.from, gasPrice |-> t.gasPrice,
     storageLimit |-> t.storageLimit, gas |-> t.gas, nonce |-> t.nonce]

\* the node's price taken as it is
FloorGasPrice_Raw(p) == p

\* if gasPrice.Cmp(big.NewInt(constants.MinGasprice)) < 1 { gasPrice = MinGasprice }
FloorGasPrice(p) == IF p <= MinGasprice THEN MinGasprice ELSE p

\* UnsignedTransaction.ApplyDefault: fills defaults into fields that are still
\* empty; none of the fields the resolver handles is empty when it runs, bar from,
\* which it has no default for
ApplyDefault(t) == t

\* the caller invokes client.ApplyUnsignedTransactionDefault(tx)
BeginResolve(t) ==
    /\ rstatus = "idle"
    /\ tx' = t
    /\ entry' = t
    /\ step' = 1
    /\ rstatus' = "running"
    /\ UNCHANGED <<client, nodePrice, rerr, calls, amResult, estReq>>
    /\ UNCHANGED notResolve

\* if client != nil { ... } return nil, on a nil receiver
ResolveNilClient ==
    /\ rstatus = "running"
    /\ step = 1
    /\ client.isNil
    /\ rstatus' = "ok"
    /\ UNCHANGED <<client, nodePrice, tx, entry, step, rerr, calls, amResult, estReq>>
    /\ UNCHANGED notResolve

\* step 1: tx.From from accountManager.GetDefault(), which answers am:
\* "account" (an address), "none" (nil, nil) or "error"
ResolveFrom(am) ==
    /\ rstatus = "running"
    /\ step = 1
    /\ ~client.isNil
    /\ IF IsNil(tx.from) /\ client.accountManager # "nil"
       THEN /\ amResult' = am
            /\ IF am = "error"
               THEN /\ rstatus' = "err"
                    /\ rerr' = "get default account error"
                    /\ UNCHANGED <<tx, step>>
               ELSE IF am = "none"
               THEN /\ rstatus' = "err"
                    /\ rerr' = "no account exist in keystore directory"
                    /\ UNCHANGED <<tx, step>>
               ELSE /\ tx' = [tx EXCEPT !.from = {"default"}]
                    /\ step' = 2
                    /\ UNCHANGED <<rstatus, rerr>>
       ELSE /\ am = "account"
            /\ step' = 2
            /\ UNCHANGED <<tx, rstatus, rerr, amResult>>
    /\ UNCHANGED <<client, nodePrice, entry, calls, estReq>>
    /\ UNCHANGED notResolve

\* step 2: tx.Nonce from client.GetNextNonce(*tx.From, nil)
ResolveNonce(ok, v) ==
    /\ rstatus = "running"
    /\ step = 2
    /\ IF ~IsNil(tx.nonce)
       THEN /\ step' = 3
            /\ UNCHANGED <<tx, rstatus, rerr, calls>>
       ELSE IF IsNil(tx.from)
       THEN \* *tx.From dereferences a nil pointer before the call is made
            /\ rstatus' = "panic"
            /\ UNCHANGED <<tx, step, rerr, calls>>
       ELSE /\ calls' = Append(calls, "cfx_getNextNonce")
            /\ IF ok
               THEN /\ tx' = [tx EXCEPT !.nonce = {v}]
                    /\ step' = 3
                    /\ UNCHANGED <<rstatus, rerr>>
               ELSE /\ rstatus' = "err"
                    /\ rerr' = "get nonce error"
                    /\ UNCHANGED <<tx, step>>
    /\ UNCHANGED <<client, nodePrice, entry, amResult, estReq>>
    /\ UNCHANGED notResolve

\* step 3: tx.GasPrice from client.GetGasPrice(), floored at the minimum
ResolveGasPrice(ok, v) ==
    /\ rstatus = "running"
    /\ step = 3
    /\ IF ~IsNil(tx.gasPrice)
       THEN /\ step' = 4
            /\ UNCHANGED <<tx, rstatus, rerr, calls, nodePrice>>
       ELSE /\ calls' = Append(calls, "cfx_gasPrice")
            /\ IF ok
               THEN /\ nodePrice' = {v}
                    /\ tx' = [tx EXCEPT !.gasPrice = {FloorGasPrice(v)}]
                    /\ step' = 4
                    /\ UNCHANGED <<rstatus, rerr>>
               ELSE /\ rstatus' = "err"
                    /\ rerr' = "get gas price error"
                    /\ UNCHANGED <<tx, step, nodePrice>>
    /\ UNCHANGED <<client, entry, amResult, estReq>>
    /\ UNCHANGED notResolve

\* step 4 with a failure that clears what the earlier steps fetched
ResolveEpochHeight_Rollback(ok, v) ==
    /\ rstatus = "running"
    /\ step = 4
    /\ IF ~IsNil(tx.epochHeight)
       THEN /\ step' = 5
            /\ UNCHANGED <<tx, rstatus, rerr, calls>>
       ELSE /\ calls' = Append(calls, "cfx_epochNumber")
            /\ IF ok
               THEN /\ tx' = [tx EXCEPT !.epochHeight = {v}]
                    /\ step' = 5
                    /\ UNCHANGED <<rstatus, rerr>>
               ELSE /\ rstatus' = "err"
                    /\ rerr' = "get epoch number error"
                    /\ tx' = entry
                    /\ UNCHANGED step
    /\ UNCHANGED <<client, nodePrice, entry, amResult, estReq>>
    /\ UNCHANGED notResolve

\* step 4: tx.EpochHeight from client.GetEpochNumber(types.EpochLatestState)
ResolveEpochHeight(ok, v) ==
    /\ rstatus = "running"
    /\ step = 4
    /\ IF ~IsNil(tx.epochHeight)
       THEN /\ step' = 5
            /\ UNCHANGED <<tx, rstatus, rerr, calls>>
       ELSE /\ calls' = Append(calls, "cfx_epochNumber")
            /\ IF ok
               THEN /\ tx' = [tx EXCEPT !.epochHeight = {v}]
                    /\ step' = 5
                    /\ UNCHANGED <<rstatus, rerr>>
               ELSE /\ rstatus' = "err"
                    /\ rerr' = "get epoch number error"
                    /\ UNCHANGED <<tx, step>>
    /\ UNCHANGED <<client, nodePrice, entry, amResult, estReq>>
    /\ UNCHANGED notResolve

\* the estimate written over both fields, set or not
SetFromEstimate_Both(t, gasUsed, storageCollateralized) ==
    [t EXCEPT !.gas = {gasUsed}, !.storageLimit = {storageCollateralized}]

\* if tx.Gas == nil { tx.Gas = sm.GasUsed }
\* if tx.StorageLimit == nil { tx.StorageLimit = sm.StorageCollateralized }
SetFromEstimate(t, gasUsed, storageCollateralized) ==
    [t EXCEPT !.gas = IF IsNil(t.gas) THEN {gasUsed} ELSE t.gas,
              !.storageLimit = IF IsNil(t.storageLimit)
                               THEN {storageCollateralized} ELSE t.storageLimit]

\* the estimation is needed only when both fields are missing
NeedsEstimate_Both(t) == IsNil(t.storageLimit) /\ IsNil(t.gas)

\* if tx.StorageLimit == nil || tx.Gas == nil
NeedsEstimate(t) == IsNil(t.storageLimit) \/ IsNil(t.gas)

\* step 5: tx.Gas and tx.StorageLimit from client.EstimateGasAndCollateral,
\* then tx.ApplyDefault() and return nil
ResolveGasAndStorage(ok, g, s) ==
    /\ rstatus = "running"
    /\ step = 5
    /\ IF ~NeedsEstimate(tx)
       THEN /\ tx' = ApplyDefault(tx)
            /\ rstatus' = "ok"
            /\ step' = 6
            /\ UNCHANGED <<rerr, calls, estReq>>
       ELSE /\ estReq' = FillByUnsignedTx(tx)
            /\ calls' = Append(calls, "cfx_estimateGasAndCollateral")
            /\ IF ok
               THEN /\ tx' = ApplyDefault(SetFromEstimate(tx, g, s))
                    /\ rstatus' = "ok"
                    /\ step' = 6
                    /\ UNCHANGED rerr
               ELSE /\ rstatus' = "err"
                    /\ rerr' = "get estimate gas and collateral error"
                    /\ UNCHANGED <<tx, step>>
    /\ UNCHANGED <<client, nodePrice, entry, amResult>>
    /\ UNCHANGED notResolve

----------------------------------------------------------------------------
(* Batched revert rates: Client.BatchGetBlockRevertRates *)

\* constants.MaxUint256
MaxUint256 == MaxRisk

Hashes == {"h1", "h2"}
\* a nil *types.Hash in blockhashs
NilHash == "nil"
\* the zero value of types.Hash
ZeroHash == ""

\* A risk string is empty, the 0x-prefixed hexadecimal form of a number, or its
\* decimal form
EmptyString == [enc |-> "empty", n |-> 0]
\* hexutil.EncodeBig
EncodeBig(n) == [enc |-> "hex", n |-> n]
\* (*big.Int).String
BigString(n) == [enc |-> "dec", n |-> n]
\* hexutil.DecodeBig: an input that is empty or lacks the 0x prefix is an error
DecodeBig(str) ==
    IF str.enc = "hex" THEN [ok |-> TRUE, n |-> str.n] ELSE [ok |-> FALSE, n |-> 0]

\* utils.CalcBlockRevertRate: risk / MaxUint256, kept as the exact fraction
CalcBlockRevertRate(b) == [num |-> b, den |-> MaxUint256]

\* what the node may answer to cfx_getConfirmationRiskByHash: null, or a risk
RiskAnswers == {EmptyString} \cup {EncodeBig(n) : n \in {0, 1, MaxUint256}}
\* what the node may answer to cfx_getBlockByHash: null, a block outside the
\* pivot chain's epochs, a block with an epoch number
BlockAnswers == {"null", "noEpoch", "epoch"}

\* the zero value of types.BlockSummary, and the summary decoded from an answer
ZeroSummary == [Hash |-> ZeroHash, EpochNumber |-> {}]
SummaryOf(h) ==
    IF nodeBlock[h] = "null" THEN ZeroSummary
    ELSE [Hash |-> h, EpochNumber |-> IF nodeBlock[h] = "epoch" THEN {1} ELSE {}]

\* the zero value of rpc.BatchElem
ZeroElem == [Method |-> "", Args |-> <<>>]

NoBatchReturn == [kind |-> "none", rates |-> <<>>, msg |-> ""]

RECURSIVE SeqsUpTo(_, _)
SeqsUpTo(S, n) ==
    IF n = 0 THEN {<<>>}
    ELSE LET shorter == SeqsUpTo(S, n - 1)
         IN  shorter \cup {Append(q, x) : q \in {r \in shorter : Len(r) = n - 1}, x \in S}

\* lines 887-902: risks after the first loop (before the batch call)
InitialRisks(hs) ==
    [i \in 1..Len(hs) |->
        IF hs[i] = NilHash THEN EncodeBig(MaxUint256) ELSE EmptyString]

\* a risk batch with an element for every position, placeholders included
RiskBatch_WithPlaceholders(hs, i) ==
    [j \in 1..(Len(hs) + 1 - i) |->
        [Method |-> "cfx_getConfirmationRiskByHash", Args |-> <<hs[j + i - 1]>>]]

\* lines 887-902: the risk batch, one element per non-placeholder position
RECURSIVE RiskBatch(_, _)
RiskBatch(hs, i) ==
    IF i > Len(hs) THEN <<>>
    ELSE IF hs[i] = NilHash THEN RiskBatch(hs, i + 1)
    ELSE <<[Method |-> "cfx_getConfirmationRiskByHash", Args |-> <<hs[i]>>]>>
             \o RiskBatch(hs, i + 1)

\* the batch call stored each answer through Result: &risks[i]
RisksAfterBatch(hs) ==
    [i \in 1..Len(hs) |->
        IF hs[i] = NilHash THEN EncodeBig(MaxUint256) ELSE nodeRisk[hs[i]]]

\* lines 909-920: the hashes without a risk, one entry per position
RECURSIVE NoRisk(_, _, _)
NoRisk(hs, rs, i) ==
    IF i > Len(hs) THEN <<>>
    ELSE IF rs[i] = EmptyString THEN <<hs[i]>> \o NoRisk(hs, rs, i + 1)
    ELSE NoRisk(hs, rs, i + 1)

\* lines 911-920: hash -> the positions without a risk that hold it, ascending
RECURSIVE PositionsOf(_, _, _, _)
PositionsOf(hs, rs, h, i) ==
    IF i > Len(hs) THEN <<>>
    ELSE IF rs[i] = EmptyString /\ hs[i] = h THEN <<i>> \o PositionsOf(hs, rs, h, i + 1)
    ELSE PositionsOf(hs, rs, h, i + 1)

IndexMap(hs, rs) == [h \in Hashes \cup {ZeroHash} |-> PositionsOf(hs, rs, h, 1)]
EmptyIndexMap == [h \in Hashes \cup {ZeroHash} |-> <<>>]

\* lines 925-934: bElems = make([]rpc.BatchElem, len(noRiskBlockhashs)) followed
\* by one append per hash: the zero elements stay in front
FallbackBatch(nr) ==
    [i \in 1..Len(nr) |-> ZeroElem]
        \o [i \in 1..Len(nr) |-> [Method |-> "cfx_getBlockByHash", Args |-> <<nr[i], FALSE>>]]

\* lines 942-947: the risk written for a summary
RiskOfSummary(sm) ==
    IF sm.EpochNumber # {} THEN BigString(0) ELSE BigString(MaxUint256)

\* lines 940-953: for i := range bElems, from index i on; summarys[i] panics
\* once i is past the end of summarys
RECURSIVE ApplySummaries(_, _, _, _, _)
ApplySummaries(be, sms, im, rs, i) ==
    IF i > Len(be) THEN [panic |-> FALSE, risks |-> rs]
    ELSE IF i > Len(sms) THEN [panic |-> TRUE, risks |-> rs]
    ELSE LET indexs == im[sms[i].Hash]
             risk == RiskOfSummary(sms[i])
             written == {indexs[k] : k \in 1..Len(indexs)}
         IN  ApplySummaries(be, sms, im,
                 [p \in 1..Len(rs) |-> IF p \in written THEN risk ELSE rs[p]], i + 1)

\* the conversion with the rates in the reverse of the order of the risks
Convert_Reversed(rs) ==
    IF \E i \in 1..Len(rs) : ~DecodeBig(rs[i]).ok
    THEN [kind |-> "err", rates |-> <<>>, msg |-> "create big int by risk value error"]
    ELSE [kind |-> "ok",
          rates |-> [i \in 1..Len(rs) |->
                        CalcBlockRevertRate(DecodeBig(rs[Len(rs) + 1 - i]).n)],
          msg |-> ""]

\* lines 957-966: the rates, or the error of the first risk that does not decode
Convert(rs) ==
    IF \E i \in 1..Len(rs) : ~DecodeBig(rs[i]).ok
    THEN [kind |-> "err", rates |-> <<>>, msg |-> "create big int by risk value error"]
    ELSE [kind |-> "ok",
          rates |-> [i \in 1..Len(rs) |-> CalcBlockRevertRate(DecodeBig(rs[i]).n)],
          msg |-> ""]

\* the risk batch without the early return for an empty input
RatesRiskBatch_NoEmptyCheck(hs, ok) ==
    /\ bpc = "idle"
    /\ blockhashs' = hs
    /\ bElems' = RiskBatch(hs, 1)
    /\ batches' = Append(batches, RiskBatch(hs, 1))
    /\ IF ok
       THEN /\ risks' = IF Len(hs) = 0 THEN <<>> ELSE RisksAfterBatch(hs)
            /\ bpc' = "riskDone"
            /\ UNCHANGED bret
       ELSE /\ risks' = IF Len(hs) = 0 THEN <<>> ELSE InitialRisks(hs)
            /\ bret' = [kind |-> "err", rates |-> <<>>,
                        msg |-> "batch call cfx_getConfirmationRiskByHash error"]
            /\ bpc' = "returned"
    /\ UNCHANGED <<nodeRisk, nodeBlock, singleRet, noRiskBlockhashs, indexMap, summarys>>
    /\ UNCHANGED notRates

\* BatchGetBlockRevertRates(hs) up to the return of the first BatchCallRPC
RatesRiskBatch(hs, ok) ==
    /\ bpc = "idle"
    /\ blockhashs' = hs
    /\ IF Len(hs) = 0
       THEN /\ ok
            /\ bret' = [kind |-> "ok", rates |-> <<>>, msg |-> ""]
            /\ bpc' = "returned"
            /\ UNCHANGED <<risks, bElems, batches>>
       ELSE /\ bElems' = RiskBatch(hs, 1)
            /\ batches' = Append(batches, RiskBatch(hs, 1))
            /\ IF ok
               THEN /\ risks' = RisksAfterBatch(hs)
                    /\ bpc' = "riskDone"
                    /\ UNCHANGED bret
               ELSE /\ risks' = InitialRisks(hs)
                    /\ bret' = [kind |-> "err", rates |-> <<>>,
                                msg |-> "batch call cfx_getConfirmationRiskByHash error"]
                    /\ bpc' = "returned"
    /\ UNCHANGED <<nodeRisk, nodeBlock, singleRet, noRiskBlockhashs, indexMap, summarys>>
    /\ UNCHANGED notRates

\* the fallback batch whose failure returns the rates of the risks already there
RatesFallbackBatch_PartialResult(ok) ==
    /\ bpc = "riskDone"
    /\ noRiskBlockhashs' = NoRisk(blockhashs, risks, 1)
    /\ indexMap' = IndexMap(blockhashs, risks)
    /\ IF Len(NoRisk(blockhashs, risks, 1)) = 0
       THEN /\ ok
            /\ bpc' = "convert"
            /\ UNCHANGED <<bElems, summarys, batches, bret>>
       ELSE LET nr == NoRisk(blockhashs, risks, 1)
            IN  /\ bElems' = FallbackBatch(nr)
                /\ batches' = Append(batches, FallbackBatch(nr))
                /\ IF ok
                   THEN /\ summarys' = [i \in 1..Len(nr) |-> SummaryOf(nr[i])]
                        /\ bpc' = "fallbackDone"
                        /\ UNCHANGED bret
                   ELSE /\ summarys' = [i \in 1..Len(nr) |-> ZeroSummary]
                        /\ bret' = [kind |-> "err",
                                    rates |-> [i \in 1..Len(risks) |->
                                                  CalcBlockRevertRate(risks[i].n)],
                                    msg |-> "batch call cfx_getBlockByHash error"]
                        /\ bpc' = "returned"
    /\ UNCHANGED <<nodeRisk, nodeBlock, singleRet, blockhashs, risks>>
    /\ UNCHANGED notRates

\* lines 908-938: the filter loop and, if a hash has no risk, the fallback batch
RatesFallbackBatch(ok) ==
    /\ bpc = "riskDone"
    /\ noRiskBlockhashs' = NoRisk(blockhashs, risks, 1)
    /\ indexMap' = IndexMap(blockhashs, risks)
    /\ IF Len(NoRisk(blockhashs, risks, 1)) = 0
       THEN /\ ok
            /\ bpc' = "convert"
            /\ UNCHANGED <<bElems, summarys, batches, bret>>
       ELSE LET nr == NoRisk(blockhashs, risks, 1)
            IN  /\ bElems' = FallbackBatch(nr)
                /\ batches' = Append(batches, FallbackBatch(nr))
                /\ IF ok
                   THEN /\ summarys' = [i \in 1..Len(nr) |-> SummaryOf(nr[i])]
                        /\ bpc' = "fallbackDone"
                        /\ UNCHANGED bret
                   ELSE /\ summarys' = [i \in 1..Len(nr) |-> ZeroSummary]
                        /\ bret' = [kind |-> "err", rates |-> <<>>,
                                    msg |-> "batch call cfx_getBlockByHash error"]
                        /\ bpc' = "returned"
    /\ UNCHANGED <<nodeRisk, nodeBlock, singleRet, blockhashs, risks>>
    /\ UNCHANGED notRates

\* lines 940-953: the loop over bElems that writes the fallback risks
RatesApplySummaries ==
    /\ bpc = "fallbackDone"
    /\ LET r == ApplySummaries(bElems, summarys, indexMap, risks, 1)
       IN  /\ risks' = r.risks
           /\ bpc' = IF r.panic THEN "panic" ELSE "convert"
    /\ UNCHANGED <<nodeRisk, nodeBlock, singleRet, blockhashs, bElems, noRiskBlockhashs, indexMap,
                   summarys, batches, bret>>
    /\ UNCHANGED notRates

\* lines 956-966: the conversion of the risks and the return
RatesConvert ==
    /\ bpc = "convert"
    /\ bret' = Convert(risks)
    /\ bpc' = "returned"
    /\ UNCHANGED <<nodeRisk, nodeBlock, singleRet, blockhashs, risks, bElems, noRiskBlockhashs,
                   indexMap, summarys, batches>>
    /\ UNCHANGED notRates

\* GetBlockSummaryByHash: nil when the node answers null, else the summary
GetBlockSummaryByHash(h) == IF nodeBlock[h] = "null" THEN {} ELSE {SummaryOf(h)}

\* GetBlockConfirmRiskByHash when no RPC fails: without a risk from the node, 0
\* for a block with an epoch number and MaxUint256 otherwise; else the decoded risk
GetBlockConfirmRiskByHash(h) ==
    IF nodeRisk[h] = EmptyString
    THEN IF \E block \in GetBlockSummaryByHash(h) : block.EpochNumber # {}
         THEN 0 ELSE MaxUint256
    ELSE DecodeBig(nodeRisk[h]).n

NoSingleReturn == [kind |-> "none", hash |-> NilHash, rate |-> <<>>]

\* client.GetBlockRevertRateByHash(h): okRisk and okBlock say whether the calls of
\* cfx_getConfirmationRiskByHash and, if it is made, cfx_getBlockByHash succeed
GetBlockRevertRateByHash(h, okRisk, okBlock) ==
    /\ bpc = "idle"
    /\ singleRet = NoSingleReturn
    /\ IF ~okRisk
       THEN /\ okBlock
            /\ singleRet' = [kind |-> "err", hash |-> h, rate |-> <<>>]
       ELSE IF nodeRisk[h] = EmptyString /\ ~okBlock
       THEN singleRet' = [kind |-> "err", hash |-> h, rate |-> <<>>]
       ELSE /\ (nodeRisk[h] # EmptyString => okBlock)
            /\ singleRet' = [kind |-> "ok", hash |-> h,
                             rate |-> <<[num |-> GetBlockConfirmRiskByHash(h),
                                         den |-> MaxUint256]>>]
    /\ UNCHANGED <<nodeRisk, nodeBlock, blockhashs, bpc, risks, bElems, noRiskBlockhashs,
                   indexMap, summarys, batches, bret>>
    /\ UNCHANGED notRates

----------------------------------------------------------------------------
(* Contract deployment: Client.DeployContract and the caller in main *)

\* time.After(3600 * time.Second)
DefaultTimeout == 3600
\* time.Tick(2000 * time.Millisecond)
TickInterval == 2

\* a transaction with every field set by the caller
FullTx ==
    [from |-> {"user"}, nonce |-> {UserValue}, gasPrice |-> {UserValue},
     epochHeight |-> {UserValue}, gas |-> {UserValue}, storageLimit |-> {UserValue}]

\* the option arguments: nil, or a timeout and the transaction fields
Options ==
    {[isNil |-> TRUE, Timeout |-> 0, tx |-> NilTx],
     [isNil |-> FALSE, Timeout |-> 0, tx |-> FullTx],
     [isNil |-> FALSE, Timeout |-> UserTimeout, tx |-> NilTx]}

EmptyResult == [Error |-> "", TransactionHash |-> {}, DeployedContract |-> {}]

Terminal == {"Confirmed", "Reverted", "TimedOut", "Failed"}

\* what cfx_getTransactionByHash can answer through GetTransactionByHash: an
\* error, (nil, nil), a transaction without status, with status 0, with status 1
TxAnswers == {"error", "notFound", "pending", "success", "failure"}

\* lines 796-800: the duration handed to time.After
TimeoutOf(o) == IF ~o.isNil /\ o.Timeout # 0 THEN o.Timeout ELSE DefaultTimeout

\* DeployContract(option, ...): makes the channel and the result, starts the
\* goroutine and returns &result
DeployContract ==
    /\ dpc = "notCalled"
    /\ dpc' = "abi"
    /\ result' = EmptyResult
    /\ mpc' = "running"
    /\ UNCHANGED <<option, sentAt, recvAt, panicking, outcome, doneClosed, notifications,
                   now, timeoutAt,
                   nextTick, timeoutReady, tickReady, queries, lastAnswer>>
    /\ UNCHANGED <<resolveVars, notDeploy>>

\* lines 760-767: abi.UnmarshalJSON
DeployParseABI(ok) ==
    /\ dpc = "abi"
    /\ IF ok
       THEN /\ dpc' = "pack"
            /\ UNCHANGED <<result, outcome>>
       ELSE /\ result' = [result EXCEPT !.Error = "unmarshal json to ABI error"]
            /\ outcome' = "Failed"
            /\ dpc' = "deferSend"
    /\ UNCHANGED <<option, sentAt, recvAt, panicking, doneClosed, notifications, mpc,
                   now, timeoutAt,
                   nextTick, timeoutReady, tickReady, queries, lastAnswer>>
    /\ UNCHANGED <<resolveVars, notDeploy>>

\* lines 769-788: the transaction from the option, abi.Pack of the constructor
\* parameters if there are any, and the call of SendTransaction, which begins
\* with ApplyUnsignedTransactionDefault
DeployPack(hasParams, ok) ==
    /\ dpc = "pack"
    /\ IF hasParams /\ ~ok
       THEN /\ result' = [result EXCEPT !.Error = "encode constrctor error"]
            /\ outcome' = "Failed"
            /\ dpc' = "deferSend"
            /\ UNCHANGED <<tx, entry, step, rstatus>>
       ELSE /\ ok
            /\ tx' = option.tx
            /\ entry' = option.tx
            /\ step' = 1
            /\ rstatus' = "running"
            /\ dpc' = "resolving"
            /\ UNCHANGED <<result, outcome>>
    /\ UNCHANGED <<option, sentAt, recvAt, panicking, doneClosed, notifications, mpc,
                   now, timeoutAt,
                   nextTick, timeoutReady, tickReady, queries, lastAnswer>>
    /\ UNCHANGED <<client, nodePrice, rerr, calls, amResult, estReq, notDeploy>>

\* SendTransaction after ApplyUnsignedTransactionDefault returned (lines 407-444),
\* and lines 789-793 of DeployContract when it fails
DeploySign(ok) ==
    /\ dpc = "resolving"
    /\ rstatus \in {"ok", "err", "panic"}
    /\ IF rstatus = "panic"
       THEN /\ ok
            /\ panicking' = TRUE
            /\ dpc' = "deferSend"
            /\ UNCHANGED <<result, outcome>>
       ELSE IF rstatus = "err"
       THEN /\ ok
            /\ result' = [result EXCEPT !.Error = "apply transaction default fields error"]
            /\ outcome' = "Failed"
            /\ dpc' = "deferSend"
            /\ UNCHANGED panicking
       ELSE IF client.accountManager = "nil"
       THEN /\ ok
            /\ result' = [result EXCEPT !.Error = "sign transaction need account manager"]
            /\ outcome' = "Failed"
            /\ dpc' = "deferSend"
            /\ UNCHANGED panicking
       ELSE IF ~ok
       THEN /\ result' = [result EXCEPT !.Error = "sign transaction error"]
            /\ outcome' = "Failed"
            /\ dpc' = "deferSend"
            /\ UNCHANGED panicking
       ELSE /\ dpc' = "sendRaw"
            /\ UNCHANGED <<result, outcome, panicking>>
    /\ UNCHANGED <<option, sentAt, recvAt, doneClosed, notifications, mpc, now, timeoutAt,
                   nextTick, timeoutReady, tickReady, queries, lastAnswer>>
    /\ UNCHANGED <<resolveVars, notDeploy>>

\* SendRawTransaction (lines 448-453); on success lines 794-802: the hash is
\* recorded, then the timeout channel and the ticker are made
DeploySendRaw(ok) ==
    /\ dpc = "sendRaw"
    /\ IF ok
       THEN /\ result' = [result EXCEPT !.TransactionHash = {"txhash"}]
            /\ sentAt' = {now}
            /\ timeoutAt' = {now + TimeoutOf(option)}
            /\ nextTick' = {now + TickInterval}
            /\ dpc' = "poll"
            /\ UNCHANGED outcome
       ELSE /\ result' = [result EXCEPT !.Error = "send raw transaction error"]
            /\ outcome' = "Failed"
            /\ dpc' = "deferSend"
            /\ UNCHANGED <<timeoutAt, nextTick, sentAt>>
    /\ UNCHANGED <<option, recvAt, panicking, doneClosed, notifications, mpc, now,
                   timeoutReady, tickReady, queries, lastAnswer>>
    /\ UNCHANGED <<resolveVars, notDeploy>>

\* Time passes while SendTransaction waits for the node's answer to
\* cfx_sendRawTransaction (line 788 has not returned yet)
SubmitTakesTime ==
    /\ dpc = "sendRaw"
    /\ now < MaxSubmitDelay
    /\ now' = now + 1
    /\ UNCHANGED <<option, sentAt, recvAt, dpc, panicking, result, outcome, doneClosed,
                   notifications, mpc, timeoutAt, nextTick, timeoutReady, tickReady,
                   queries, lastAnswer>>
    /\ UNCHANGED <<resolveVars, notDeploy>>

Min(a, b) == IF a <= b THEN a ELSE b
TheOne(S) == CHOOSE x \in S : TRUE

\* Time passes while the goroutine waits in the select with neither channel ready:
\* the clock moves to the next instant at which the timer or the ticker delivers
TimePasses ==
    /\ dpc = "poll"
    /\ ~timeoutReady /\ ~tickReady
    /\ LET deadline == TheOne(timeoutAt)
           tick == TheOne(nextTick)
           t == Min(deadline, tick)
       IN  /\ now' = t
           /\ timeoutReady' = (deadline = t)
           /\ tickReady' = (tick = t)
           /\ nextTick' = IF tick = t THEN {tick + TickInterval} ELSE nextTick
    /\ UNCHANGED <<option, sentAt, recvAt, dpc, panicking, result, outcome, doneClosed,
                   notifications, mpc,
                   timeoutAt, queries, lastAnswer>>
    /\ UNCHANGED <<resolveVars, notDeploy>>

\* case t := <-timeout (lines 807-810)
PollTimeout ==
    /\ dpc = "poll"
    /\ timeoutReady
    /\ timeoutReady' = FALSE
    /\ result' = [result EXCEPT !.Error = "deploy contract time out"]
    /\ outcome' = "TimedOut"
    /\ dpc' = "deferSend"
    /\ UNCHANGED <<option, sentAt, recvAt, panicking, doneClosed, notifications, mpc,
                   now, timeoutAt,
                   nextTick, tickReady, queries, lastAnswer>>
    /\ UNCHANGED <<resolveVars, notDeploy>>

\* a status test that never sees a status
StatusIsSet_Never(answer) == "no"

\* transaction.Status != nil, where transaction is the pointer GetTransactionByHash
\* returned: "panic" when that pointer is nil
StatusIsSet(answer) ==
    IF answer = "notFound" THEN "panic"
    ELSE IF answer \in {"success", "failure"} THEN "yes" ELSE "no"

\* the tick that keeps polling when the query returns an error
PollTick_RetryOnError(answer) ==
    /\ dpc = "poll"
    /\ tickReady
    /\ tickReady' = FALSE
    /\ queries' = queries + 1
    /\ lastAnswer' = answer
    /\ IF answer = "error"
       THEN UNCHANGED <<result, outcome, dpc, panicking>>
       ELSE IF StatusIsSet(answer) = "panic"
       THEN /\ panicking' = TRUE
            /\ dpc' = "deferSend"
            /\ UNCHANGED <<result, outcome>>
       ELSE IF StatusIsSet(answer) = "no"
       THEN UNCHANGED <<result, outcome, dpc, panicking>>
       ELSE IF answer = "failure"
       THEN /\ result' = [result EXCEPT !.Error = "transaction is packed but it is failed"]
            /\ outcome' = "Reverted"
            /\ dpc' = "deferSend"
            /\ UNCHANGED panicking
       ELSE /\ result' = [result EXCEPT !.DeployedContract = {"created"}]
            /\ outcome' = "Confirmed"
            /\ dpc' = "deferSend"
            /\ UNCHANGED panicking
    /\ UNCHANGED <<option, sentAt, recvAt, doneClosed, notifications, mpc, now, timeoutAt,
                   nextTick, timeoutReady>>
    /\ UNCHANGED <<resolveVars, notDeploy>>

\* the tick without the test of the status value: any status deploys
PollTick_AnyStatusDeploys(answer) ==
    /\ dpc = "poll"
    /\ tickReady
    /\ tickReady' = FALSE
    /\ queries' = queries + 1
    /\ lastAnswer' = answer
    /\ IF answer = "error"
       THEN /\ result' = [result EXCEPT !.Error = "get transaction receipt error"]
            /\ outcome' = "Failed"
            /\ dpc' = "deferSend"
            /\ UNCHANGED panicking
       ELSE IF StatusIsSet(answer) = "panic"
       THEN /\ panicking' = TRUE
            /\ dpc' = "deferSend"
            /\ UNCHANGED <<result, outcome>>
       ELSE IF StatusIsSet(answer) = "no"
       THEN UNCHANGED <<result, outcome, dpc, panicking>>
       ELSE /\ result' = [result EXCEPT !.DeployedContract = {"created"}]
            /\ outcome' = "Confirmed"
            /\ dpc' = "deferSend"
            /\ UNCHANGED panicking
    /\ UNCHANGED <<option, sentAt, recvAt, doneClosed, notifications, mpc, now,
                   timeoutAt, nextTick,
                   timeoutReady>>
    /\ UNCHANGED <<resolveVars, notDeploy>>

\* case <-ticker (lines 812-829): one GetTransactionByHash and what follows from it
PollTick(answer) ==
    /\ dpc = "poll"
    /\ tickReady
    /\ tickReady' = FALSE
    /\ queries' = queries + 1
    /\ lastAnswer' = answer
    /\ IF answer = "error"
       THEN /\ result' = [result EXCEPT !.Error = "get transaction receipt error"]
            /\ outcome' = "Failed"
            /\ dpc' = "deferSend"
            /\ UNCHANGED panicking
       ELSE IF StatusIsSet(answer) = "panic"
       THEN /\ panicking' = TRUE
            /\ dpc' = "deferSend"
            /\ UNCHANGED <<result, outcome>>
       ELSE IF StatusIsSet(answer) = "no"
       THEN UNCHANGED <<result, outcome, dpc, panicking>>
       ELSE IF answer = "failure"
       THEN /\ result' = [result EXCEPT !.Error = "transaction is packed but it is failed"]
            /\ outcome' = "Reverted"
            /\ dpc' = "deferSend"
            /\ UNCHANGED panicking
       ELSE /\ result' = [result EXCEPT !.DeployedContract = {"created"}]
            /\ outcome' = "Confirmed"
            /\ dpc' = "deferSend"
            /\ UNCHANGED panicking
    /\ UNCHANGED <<option, sentAt, recvAt, doneClosed, notifications, mpc, now,
                   timeoutAt, nextTick,
                   timeoutReady>>
    /\ UNCHANGED <<resolveVars, notDeploy>>

\* the caller reaches _ = <-result.DoneChannel and blocks in it
CallerReceive ==
    /\ mpc = "running"
    /\ dpc # "crashed"
    /\ mpc' = "receiving"
    /\ recvAt' = outcome
    /\ UNCHANGED <<option, sentAt, dpc, panicking, result, outcome, doneClosed, notifications,
                   now, timeoutAt, nextTick, timeoutReady, tickReady, queries, lastAnswer>>
    /\ UNCHANGED <<resolveVars, notDeploy>>

\* a send that does not wait: it is dropped when the caller is not receiving
DeferSend_NonBlocking ==
    /\ dpc = "deferSend"
    /\ IF mpc = "receiving"
       THEN /\ notifications' = notifications + 1
            /\ mpc' = "received"
       ELSE UNCHANGED <<notifications, mpc>>
    /\ dpc' = "deferClose"
    /\ UNCHANGED <<option, sentAt, recvAt, panicking, result, outcome, doneClosed, now,
                   timeoutAt, nextTick, timeoutReady, tickReady, queries, lastAnswer>>
    /\ UNCHANGED <<resolveVars, notDeploy>>

\* the deferred doneChan <- struct{}{} (line 756): the channel is unbuffered, so the
\* send completes together with the caller's receive
DeferSend ==
    /\ dpc = "deferSend"
    /\ mpc = "receiving"
    /\ notifications' = notifications + 1
    /\ mpc' = "received"
    /\ dpc' = "deferClose"
    /\ UNCHANGED <<option, sentAt, recvAt, panicking, result, outcome, doneClosed, now,
                   timeoutAt,
                   nextTick, timeoutReady, tickReady, queries, lastAnswer>>
    /\ UNCHANGED <<resolveVars, notDeploy>>

\* the deferred close(doneChan) (line 757); after it the goroutine ends, and a
\* panic that was unwinding ends the process
DeferClose ==
    /\ dpc = "deferClose"
    /\ doneClosed' = TRUE
    /\ dpc' = IF panicking THEN "crashed" ELSE "exited"
    /\ UNCHANGED <<option, sentAt, recvAt, panicking, result, outcome, notifications,
                   mpc, now, timeoutAt,
                   nextTick, timeoutReady, tickReady, queries, lastAnswer>>
    /\ UNCHANGED <<resolveVars, notDeploy>>

----------------------------------------------------------------------------
(* Initial states and specifications *)

\* the retryCount values passed to NewClientWithRetry
RetryCounts == (0..MaxRetryCount) \cup {0 - 1}

RetryIdle ==
    /\ rpcRequester = NewClientWithRetry(0, 0)
    /\ op = "none"
    /\ cpc = "idle"
    /\ remain = 0
    /\ attempts = 0
    /\ sleeps = 0
    /\ err = 0
    /\ ret = NoReturn

ResolveIdle ==
    /\ client = [isNil |-> FALSE, accountManager |-> "nil"]
    /\ tx = NilTx
    /\ entry = NilTx
    /\ step = 0
    /\ rstatus = "idle"
    /\ rerr = ""
    /\ calls = <<>>
    /\ amResult = "notAsked"
    /\ estReq = NoRequest
    /\ nodePrice = {}

\* the deployment workflow before DeployContract is called
DeployStart ==
    /\ dpc = "notCalled"
    /\ panicking = FALSE
    /\ result = EmptyResult
    /\ outcome = "none"
    /\ doneClosed = FALSE
    /\ notifications = 0
    /\ mpc = "running"
    /\ now = 0
    /\ timeoutAt = {}
    /\ nextTick = {}
    /\ timeoutReady = FALSE
    /\ tickReady = FALSE
    /\ queries = 0
    /\ lastAnswer = "none"
    /\ sentAt = {}
    /\ recvAt = "notReceiving"

DeployIdle ==
    /\ option = [isNil |-> TRUE, Timeout |-> 0, tx |-> NilTx]
    /\ DeployStart

RatesIdle ==
    /\ nodeRisk = [h \in Hashes |-> EmptyString]
    /\ nodeBlock = [h \in Hashes |-> "null"]
    /\ blockhashs = <<>>
    /\ bpc = "idle"
    /\ risks = <<>>
    /\ bElems = <<>>
    /\ noRiskBlockhashs = <<>>
    /\ indexMap = EmptyIndexMap
    /\ summarys = <<>>
    /\ batches = <<>>
    /\ bret = NoBatchReturn
    /\ singleRet = NoSingleReturn

InitRetry ==
    /\ \E retryCount \in RetryCounts, retryInterval \in 0..MaxInterval :
          rpcRequester = NewClientWithRetry(retryCount, retryInterval)
    /\ op = "none"
    /\ cpc = "idle"
    /\ remain = 0
    /\ attempts = 0
    /\ sleeps = 0
    /\ err = 0
    /\ ret = NoReturn
    /\ ResolveIdle
    /\ RatesIdle
    /\ DeployIdle

NextRetry ==
    \/ \E o \in Methods : Invoke(o)
    \/ \E o \in Methods, ok \in BOOLEAN : DirectCall(o, ok)
    \/ \E o \in Methods, ok \in BOOLEAN : FirstAttempt(o, ok)
    \/ \E o \in Methods, ok \in BOOLEAN : RetryAttempt(o, ok)
    \/ \E o \in Methods : Sleep(o)

SpecRetry == InitRetry /\ [][NextRetry]_vars

InitResolve ==
    /\ client \in Clients
    /\ tx = NilTx
    /\ entry = NilTx
    /\ step = 0
    /\ rstatus = "idle"
    /\ rerr = ""
    /\ calls = <<>>
    /\ amResult = "notAsked"
    /\ estReq = NoRequest
    /\ nodePrice = {}
    /\ RetryIdle
    /\ RatesIdle
    /\ DeployIdle

GetDefaultAnswers == {"account", "none", "error"}

NextResolve ==
    \/ \E t \in EntryTxs : BeginResolve(t)
    \/ ResolveNilClient
    \/ \E am \in GetDefaultAnswers : ResolveFrom(am)
    \/ \E ok \in BOOLEAN, v \in NodeValues : ResolveNonce(ok, v)
    \/ \E ok \in BOOLEAN, v \in NodeValues : ResolveGasPrice(ok, v)
    \/ \E ok \in BOOLEAN, v \in NodeValues : ResolveEpochHeight(ok, v)
    \/ \E ok \in BOOLEAN, g \in NodeValues, s \in NodeValues : ResolveGasAndStorage(ok, g, s)

SpecResolve == InitResolve /\ [][NextResolve]_vars

InitRates ==
    /\ nodeRisk \in [Hashes -> RiskAnswers]
    /\ nodeBlock \in [Hashes -> BlockAnswers]
    /\ blockhashs = <<>>
    /\ bpc = "idle"
    /\ risks = <<>>
    /\ bElems = <<>>
    /\ noRiskBlockhashs = <<>>
    /\ indexMap = EmptyIndexMap
    /\ summarys = <<>>
    /\ batches = <<>>
    /\ bret = NoBatchReturn
    /\ singleRet = NoSingleReturn
    /\ RetryIdle
    /\ ResolveIdle
    /\ DeployIdle

NextRates ==
    \/ \E hs \in SeqsUpTo(Hashes \cup {NilHash}, MaxHashes), ok \in BOOLEAN :
          RatesRiskBatch(hs, ok)
    \/ \E ok \in BOOLEAN : RatesFallbackBatch(ok)
    \/ RatesApplySummaries
    \/ RatesConvert
    \/ \E h \in Hashes, okRisk \in BOOLEAN, okBlock \in BOOLEAN :
          GetBlockRevertRateByHash(h, okRisk, okBlock)

SpecRates == InitRates /\ [][NextRates]_vars

InitDeploy ==
    /\ option \in Options
    /\ DeployStart
    /\ client \in [isNil : {FALSE}, accountManager : {"nil", "set"}]
    /\ tx = NilTx
    /\ entry = NilTx
    /\ step = 0
    /\ rstatus = "idle"
    /\ rerr = ""
    /\ calls = <<>>
    /\ amResult = "notAsked"
    /\ estReq = NoRequest
    /\ nodePrice = {}
    /\ RetryIdle
    /\ RatesIdle

\* the one value the node answers the resolver with during a deployment
DeployNodeValues == {MaxNodeValue}

NextDeploy ==
    \/ DeployContract
    \/ \E ok \in BOOLEAN : DeployParseABI(ok)
    \/ \E hasParams \in BOOLEAN, ok \in BOOLEAN : DeployPack(hasParams, ok)
    \/ \E am \in GetDefaultAnswers : ResolveFrom(am)
    \/ \E ok \in BOOLEAN, v \in DeployNodeValues : ResolveNonce(ok, v)
    \/ \E ok \in BOOLEAN, v \in DeployNodeValues : ResolveGasPrice(ok, v)
    \/ \E ok \in BOOLEAN, v \in DeployNodeValues : ResolveEpochHeight(ok, v)
    \/ \E ok \in BOOLEAN, g \in DeployNodeValues : ResolveGasAndStorage(ok, g, g)
    \/ \E ok \in BOOLEAN : DeploySign(ok)
    \/ SubmitTakesTime
    \/ \E ok \in BOOLEAN : DeploySendRaw(ok)
    \/ TimePasses
    \/ PollTimeout
    \/ \E answer \in TxAnswers : PollTick(answer)
    \/ CallerReceive
    \/ DeferSend
    \/ DeferClose

SpecDeploy == InitDeploy /\ [][NextDeploy]_vars

----------------------------------------------------------------------------
(* Properties *)

\* C1: every DeployContract invocation reaches exactly one of Confirmed, Reverted,
\* TimedOut, Failed, and the goroutine delivers exactly one notification on
\* DoneChannel: never two, none before an outcome is reached, and one by the time
\* the goroutine has ended.
C1_OneOutcomeOneNotification ==
    /\ notifications <= 1
    /\ (notifications = 1 => outcome \in Terminal)
    /\ (dpc \in {"exited", "crashed"} => notifications = 1 /\ outcome \in Terminal)

\* C2: a tick whose GetTransactionByHash answers "not found" (nil, nil) or a
\* transaction without status leaves the workflow polling: no outcome, no error,
\* no panic.
C2_UnresolvedTickKeepsPolling ==
    [][(queries' = queries + 1 /\ lastAnswer' \in {"notFound", "pending"})
          => (dpc' = "poll" /\ ~panicking' /\ outcome' = "none" /\ result' = result)]_vars

\* position i of blockhashs holds a hash for which the node has no risk
NeedsFallback(i) ==
    /\ blockhashs[i] # NilHash
    /\ nodeRisk[blockhashs[i]] = EmptyString

BatchCallFailed ==
    bret.msg \in {"batch call cfx_getConfirmationRiskByHash error",
                  "batch call cfx_getBlockByHash error"}

\* C3: when no batch call fails, BatchGetBlockRevertRates returns without error,
\* and every position whose hash has no risk gets rate 0 if the block summary has
\* an epoch number and rate 1 if its epoch number is null.
C3_FallbackRates ==
    (bpc \in {"returned", "panic"} /\ ~BatchCallFailed) =>
        \A i \in 1..Len(blockhashs) :
            (NeedsFallback(i) /\ nodeBlock[blockhashs[i]] # "null") =>
                /\ bret.kind = "ok"
                /\ bret.rates[i] = IF nodeBlock[blockhashs[i]] = "epoch"
                                   THEN CalcBlockRevertRate(0)
                                   ELSE CalcBlockRevertRate(MaxUint256)

\* the hashes of blockhashs that need the fallback lookup
FallbackHashes == {blockhashs[i] : i \in {j \in 1..Len(blockhashs) : NeedsFallback(j)}}

\* C4: the fallback batch holds exactly one cfx_getBlockByHash request per distinct
\* hash that needs the lookup, and the positions sharing a hash get the same rate.
C4_FallbackBatchDeduplicated ==
    /\ Len(batches) >= 2 =>
          /\ Len(batches[2]) = Cardinality(FallbackHashes)
          /\ \A j \in 1..Len(batches[2]) :
                /\ batches[2][j].Method = "cfx_getBlockByHash"
                /\ batches[2][j].Args[1] \in FallbackHashes
    /\ (bpc = "returned" /\ bret.kind = "ok") =>
          \A i, j \in 1..Len(blockhashs) :
              blockhashs[i] = blockhashs[j] => bret.rates[i] = bret.rates[j]

\* C5: with a retry budget N >= 0, a Call or BatchCall that returns an error has
\* made exactly N + 1 attempts on the inner transport (1 attempt for N = 0).
C5_AttemptsOnExhaustion ==
    (cpc = "returned" /\ ret.kind = "err" /\ rpcRequester.retryCount >= 0)
        => attempts = rpcRequester.retryCount + 1

\* a BatchCall with budget 2 gave up after its third attempt failed
C5_Witness ==
    /\ cpc = "returned" /\ ret.kind = "err" /\ op = "BatchCall"
    /\ rpcRequester.retryCount = 2 /\ attempts = 3

\* C6: with a retry budget > 0, a call that made k attempts has slept k - 1 times,
\* once between every two consecutive attempts.
C6_SleepBetweenAttempts ==
    (cpc = "returned" /\ rpcRequester.kind = "rpcClientWithRetry"
        /\ rpcRequester.retryCount > 0)
        => sleeps = attempts - 1

\* tx.From was unset on entry and there is no default identity: no account manager
\* on the client, or an account manager without default account
NoDefaultIdentity ==
    /\ ~client.isNil
    /\ IsNil(entry.from)
    /\ (client.accountManager = "nil" \/ amResult = "none")

\* C7: ApplyUnsignedTransactionDefault with tx.From unset and no default identity
\* ends with an error and has issued no RPC.
C7_NoIdentityFails ==
    (rstatus \in {"ok", "err", "panic"} /\ NoDefaultIdentity)
        => (rstatus = "err" /\ calls = <<>>)

\* C8: when ApplyUnsignedTransactionDefault returns nil, from, nonce, gasPrice,
\* epochHeight, gas and storageLimit are all set.
C8_SuccessMeansAllSet ==
    (rstatus = "ok" /\ ~client.isNil) => \A f \in Fields : ~IsNil(tx[f])

Issued(method) == \E i \in 1..Len(calls) : calls[i] = method

\* the steps that query the node: the step's number, its method, and whether its
\* field was unset on entry
QuerySteps ==
    {[at |-> 2, method |-> "cfx_getNextNonce", unset |-> IsNil(entry.nonce)],
     [at |-> 3, method |-> "cfx_gasPrice", unset |-> IsNil(entry.gasPrice)],
     [at |-> 4, method |-> "cfx_epochNumber", unset |-> IsNil(entry.epochHeight)],
     [at |-> 5, method |-> "cfx_estimateGasAndCollateral",
      unset |-> IsNil(entry.gas) \/ IsNil(entry.storageLimit)]}

\* C9: a step's RPC is issued only if the step's field was unset; a step that was
\* passed, or that returned the error, with its field unset has issued it; no RPC
\* is issued before its step is reached; a transaction with every field set causes
\* no RPC at all.
C9_QueryOnlyWhenUnset ==
    /\ \A q \in QuerySteps :
          /\ Issued(q.method) => (q.unset /\ step >= q.at)
          /\ (step > q.at /\ q.unset) => Issued(q.method)
          /\ (step = q.at /\ rstatus = "err") => Issued(q.method)
    /\ (\A f \in Fields : ~IsNil(entry[f])) => calls = <<>>
    /\ Len(calls) <= Cardinality(QuerySteps)

\* resolution succeeded for a transaction that had nonce and storageLimit set and
\* gas unset: the estimate was fetched, the nonce was not
C9_Witness ==
    /\ rstatus = "ok"
    /\ ~IsNil(entry.nonce) /\ ~IsNil(entry.storageLimit) /\ IsNil(entry.gas)
    /\ IsNil(entry.gasPrice)
    /\ calls = <<"cfx_gasPrice", "cfx_estimateGasAndCollateral">>

\* C10: a field among from, nonce, gasPrice, epochHeight, gas, storageLimit that
\* was set on entry keeps its value.
C10_SetFieldsKept ==
    \A f \in Fields : ~IsNil(entry[f]) => tx[f] = entry[f]

\* resolution succeeded with gas set on entry and storageLimit taken from the
\* estimate
C10_Witness ==
    /\ rstatus = "ok"
    /\ ~IsNil(entry.gas) /\ IsNil(entry.storageLimit)
    /\ ~IsNil(tx.storageLimit)
    /\ Issued("cfx_estimateGasAndCollateral")

\* the fields the estimate depends on
EstimateDependencies == {"from", "nonce", "gasPrice", "epochHeight"}

\* the place of a method in the order nonce, gasPrice, epochHeight, estimate
RankOf(method) ==
    CASE method = "cfx_getNextNonce" -> 1
      [] method = "cfx_gasPrice" -> 2
      [] method = "cfx_epochNumber" -> 3
      [] method = "cfx_estimateGasAndCollateral" -> 4

\* C11: cfx_estimateGasAndCollateral is issued only with from, nonce, gasPrice and
\* epochHeight set on the transaction (and from, nonce, gasPrice carried by the
\* request), and the RPCs issued follow the order nonce, gasPrice, epochHeight,
\* estimate.
C11_EstimateAfterDependencies ==
    /\ estReq.sent =>
          /\ \A f \in EstimateDependencies : ~IsNil(tx[f])
          /\ ~IsNil(estReq.from) /\ ~IsNil(estReq.nonce) /\ ~IsNil(estReq.gasPrice)
    /\ \A i, j \in 1..Len(calls) : i < j => RankOf(calls[i]) < RankOf(calls[j])

Max(a, b) == IF a >= b THEN a ELSE b

\* C12: the gas price the resolver takes from the node is stored as the larger of
\* the node's price and the protocol minimum; a gas price set by the caller is
\* not a resolved one and no price is asked for.
C12_GasPriceFloor ==
    /\ ~IsNil(nodePrice) =>
          /\ IsNil(entry.gasPrice)
          /\ tx.gasPrice = {Max(TheOne(nodePrice), MinGasprice)}
    /\ (IsNil(entry.gasPrice) /\ step > 3) => ~IsNil(nodePrice)

\* the node answered a price below the minimum and resolution went on to succeed
C12_Witness ==
    /\ rstatus = "ok"
    /\ nodePrice = {MinGasprice - 1}
    /\ tx.gasPrice = {MinGasprice}

\* the fields each querying step resolves
StepFields(at) ==
    CASE at = 2 -> {"nonce"}
      [] at = 3 -> {"gasPrice"}
      [] at = 4 -> {"epochHeight"}
      [] at = 5 -> {"gas", "storageLimit"}

\* the error each querying step returns when its RPC fails
StepError(at) ==
    CASE at = 2 -> "get nonce error"
      [] at = 3 -> "get gas price error"
      [] at = 4 -> "get epoch number error"
      [] at = 5 -> "get estimate gas and collateral error"

\* the resolver has returned the error of the querying step q: the step's RPC is
\* the last one issued, the fields of q and of the later steps are as on entry,
\* and the fields of the earlier querying steps are set (from is the default
\* account if the from step fetched it)
AbortedAt(q) ==
    /\ rerr = StepError(q.at)
    /\ calls # <<>> /\ calls[Len(calls)] = q.method
    /\ \A l \in QuerySteps : l.at > q.at => ~Issued(l.method)
    /\ \A l \in QuerySteps : l.at >= q.at =>
          \A f \in StepFields(l.at) : tx[f] = entry[f]
    /\ \A f \in StepFields(q.at) : IsNil(entry[f]) => IsNil(tx[f])
    /\ \A l \in QuerySteps : l.at < q.at =>
          \A f \in StepFields(l.at) : ~IsNil(tx[f])
    /\ amResult = "account" => tx.from = {"default"}

\* C13: a querying step whose RPC fails (the RPC is issued and no field is set)
\* makes the resolver return that step's error at once; from then on no RPC is
\* issued and the transaction does not change, so the fields of that step and of
\* the later steps stay unset and the fields filled by earlier steps stay filled.
C13_FailureAborts ==
    [][/\ (Len(calls') = Len(calls) + 1 /\ tx' = tx) =>
              (rstatus' = "err" /\ \E q \in QuerySteps : step' = q.at /\ AbortedAt(q)')
       /\ (rstatus = "err") => (rstatus' = "err" /\ calls' = calls /\ tx' = tx)
       /\ (rstatus' = "err" /\ step' >= 2) =>
              \E q \in QuerySteps : step' = q.at /\ AbortedAt(q)']_vars

\* the estimate failed after nonce, gas price and epoch height had been fetched
C13_Witness ==
    /\ rstatus = "err" /\ step = 5
    /\ calls = <<"cfx_getNextNonce", "cfx_gasPrice", "cfx_epochNumber",
                 "cfx_estimateGasAndCollateral">>
    /\ ~IsNil(tx.nonce) /\ ~IsNil(tx.gasPrice) /\ ~IsNil(tx.epochHeight)
    /\ IsNil(tx.gas) /\ IsNil(tx.storageLimit)

\* C14: a tick whose GetTransactionByHash answers a transaction with the success
\* status ends the workflow in Confirmed, with DeployedContract bound to the
\* created address the transaction reports, Error unset and TransactionHash the
\* hash the send returned; Confirmed is reached in no other way and is final.
C14_SuccessConfirms ==
    [][/\ (queries' = queries + 1 /\ lastAnswer' = "success") =>
              /\ outcome' = "Confirmed"
              /\ dpc' = "deferSend" /\ ~panicking'
              /\ result' = [Error |-> "", TransactionHash |-> {"txhash"},
                            DeployedContract |-> {"created"}]
       /\ (outcome' = "Confirmed" /\ outcome # "Confirmed") =>
              (queries' = queries + 1 /\ lastAnswer' = "success")
       /\ (outcome = "Confirmed") => (outcome' = "Confirmed" /\ result' = result)]_vars

\* the caller has been notified of a confirmed deployment
C14_Witness ==
    /\ outcome = "Confirmed" /\ lastAnswer = "success"
    /\ notifications = 1 /\ mpc = "received"
    /\ result.DeployedContract = {"created"} /\ result.Error = ""
    /\ result.TransactionHash = {"txhash"}

\* C15: a tick whose GetTransactionByHash answers a transaction with the failure
\* status ends the workflow in Reverted, with Error set to the "packed but failed"
\* error and no contract handle; Reverted is final, so a failure status never
\* leads to Confirmed.
C15_FailureReverts ==
    [][/\ (queries' = queries + 1 /\ lastAnswer' = "failure") =>
              /\ outcome' = "Reverted"
              /\ dpc' = "deferSend" /\ ~panicking'
              /\ result'.Error = "transaction is packed but it is failed"
              /\ result'.DeployedContract = {}
              /\ result'.TransactionHash = {"txhash"}
       /\ (outcome = "Reverted") => (outcome' = "Reverted" /\ result' = result)
       /\ (lastAnswer = "failure") => (lastAnswer' = "failure" /\ outcome' # "Confirmed")]_vars

\* the caller has been notified of a reverted deployment
C15_Witness ==
    /\ outcome = "Reverted" /\ lastAnswer = "failure"
    /\ notifications = 1 /\ mpc = "received"
    /\ result.Error = "transaction is packed but it is failed"
    /\ result.DeployedContract = {}

\* the timeout the caller is entitled to: the option's, or one hour when the
\* option is absent or its Timeout is zero
ExpectedTimeout ==
    IF option.isNil \/ option.Timeout = 0 THEN DefaultTimeout ELSE option.Timeout

\* the transaction was sent and no tick has seen it with a status: it was not
\* found or it was pending each time
NeverObtainedStatus ==
    /\ sentAt # {}
    /\ lastAnswer \in {"none", "notFound", "pending"}

\* C16: polling never goes on past the timeout, and a deployment that stopped
\* polling without its transaction ever having a status is TimedOut, with the
\* timeout error, at the moment the timeout expired; the timeout is one hour when
\* the option is absent or its Timeout is zero.
C16_NoStatusTimesOut ==
    /\ dpc = "poll" => now <= TheOne(sentAt) + ExpectedTimeout
    /\ (NeverObtainedStatus /\ dpc # "poll") =>
          /\ outcome = "TimedOut" /\ ~panicking
          /\ result.Error = "deploy contract time out"
          /\ now = TheOne(sentAt) + ExpectedTimeout

\* C17: the timer runs from the beginning of the submission, which is at most the
\* clock's origin (the call of DeployContract): it expires no later than the
\* timeout after that, and a TimedOut workflow got there no later than the timeout
\* plus one tick after DeployContract was called.
C17_TimerCoversSubmission ==
    /\ timeoutAt # {} => TheOne(timeoutAt) <= ExpectedTimeout
    /\ outcome = "TimedOut" => now <= ExpectedTimeout + TickInterval

\* C18: doneChan is closed only after its one notification has been delivered to
\* the caller; a workflow that reached a terminal outcome keeps its send pending
\* until the caller receives, so a caller that begins to receive after the
\* outcome still gets the notification, and once it is delivered the close
\* follows: a goroutine that has ended has closed the channel.
C18_CloseAfterNotification ==
    /\ doneClosed => (notifications = 1 /\ mpc = "received")
    /\ (outcome \in Terminal /\ notifications = 0) => (dpc = "deferSend" /\ ~doneClosed)
    /\ (outcome \in Terminal /\ mpc = "receiving") => dpc = "deferSend"
    /\ (outcome \in Terminal /\ notifications = 1) =>
          /\ mpc = "received"
          /\ dpc \in {"deferClose", "exited"}
          /\ dpc = "exited" => doneClosed

\* the caller began to receive when the workflow was already TimedOut, got the
\* notification, and the channel was closed after that
C18_Witness ==
    /\ recvAt = "TimedOut" /\ outcome = "TimedOut"
    /\ mpc = "received" /\ notifications = 1
    /\ doneClosed /\ dpc = "exited"

\* the rate that belongs to an input element: 1 for a placeholder, the node's
\* risk over MaxUint256 for a hash with a risk, and for a hash without one 0 if
\* its block has an epoch number and 1 if not
RateOf(h) ==
    IF h = NilHash THEN [num |-> MaxUint256, den |-> MaxUint256]
    ELSE IF nodeRisk[h] # EmptyString THEN [num |-> nodeRisk[h].n, den |-> MaxUint256]
    ELSE IF nodeBlock[h] = "epoch" THEN [num |-> 0, den |-> MaxUint256]
    ELSE [num |-> MaxUint256, den |-> MaxUint256]

\* C19: a BatchGetBlockRevertRates that returns without error returns as many
\* rates as there are inputs, and the rate at position i is the rate of the input
\* at position i, placeholders and repeated hashes included.
C19_ResultInInputOrder ==
    (bpc = "returned" /\ bret.kind = "ok") =>
        /\ Len(bret.rates) = Len(blockhashs)
        /\ \A i \in 1..Len(blockhashs) : bret.rates[i] = RateOf(blockhashs[i])

\* success for an input with a hash, a placeholder and the same hash again,
\* where the hash's rate differs from the placeholder's
C19_Witness ==
    /\ bpc = "returned" /\ bret.kind = "ok"
    /\ Len(blockhashs) = 3
    /\ blockhashs[1] # NilHash /\ blockhashs[2] = NilHash /\ blockhashs[3] = blockhashs[1]
    /\ bret.rates[1] # bret.rates[2]

\* the positions of blockhashs that hold a placeholder
Placeholders == {i \in 1..Len(blockhashs) : blockhashs[i] = NilHash}

\* C20: a placeholder position gets the rate 1 (MaxUint256 over MaxUint256) on
\* success and keeps the maximum risk throughout; the risk batch has one request
\* per position that is not a placeholder, no request of either batch carries a
\* placeholder, and no placeholder is put among the hashes for the fallback or
\* into the index map.
C20_PlaceholderIsMaxRisk ==
    /\ (bpc = "returned" /\ bret.kind = "ok") =>
          \A i \in Placeholders : bret.rates[i].num = bret.rates[i].den
    /\ (risks # <<>>) => \A i \in Placeholders : risks[i] = EncodeBig(MaxUint256)
    /\ Len(batches) >= 1 =>
          Len(batches[1]) = Len(blockhashs) - Cardinality(Placeholders)
    /\ \A k \in 1..Len(batches) : \A j \in 1..Len(batches[k]) :
          batches[k][j].Args # <<>> => batches[k][j].Args[1] # NilHash
    /\ \A j \in 1..Len(noRiskBlockhashs) : noRiskBlockhashs[j] # NilHash
    /\ \A h \in DOMAIN indexMap : \A j \in 1..Len(indexMap[h]) :
          indexMap[h][j] \notin Placeholders

\* success for an input of two different hashes around a placeholder
C20_Witness ==
    /\ bpc = "returned" /\ bret.kind = "ok"
    /\ Len(blockhashs) = 3
    /\ blockhashs[2] = NilHash
    /\ blockhashs[1] # NilHash /\ blockhashs[3] \notin {NilHash, blockhashs[1]}
    /\ bret.rates[2] = [num |-> MaxUint256, den |-> MaxUint256]
    /\ Len(batches) = 1 /\ Len(batches[1]) = 2

\* C21: when no batch call fails, two different positions that hold the same hash
\* get identical rates in the result, whether the node has a risk for the hash or
\* the hash is looked up through its block summary.
C21_DuplicatesSameRate ==
    (bpc \in {"returned", "panic"} /\ ~BatchCallFailed) =>
        \A i, j \in 1..Len(blockhashs) :
            (i # j /\ blockhashs[i] = blockhashs[j] /\ blockhashs[i] # NilHash) =>
                /\ bret.kind = "ok"
                /\ bret.rates[i] = bret.rates[j]

\* C22: a batch call that fails (a batch is handed to BatchCallRPC and the
\* function neither goes on to the filter nor to the summaries) makes
\* BatchGetBlockRevertRates return the error naming that batch with a nil result;
\* an error never comes with rates, and what was returned stays.
C22_BatchFailureNoRates ==
    [][/\ (Len(batches') = Len(batches) + 1 /\ bpc' \notin {"riskDone", "fallbackDone"}) =>
              /\ bpc' = "returned"
              /\ bret'.kind = "err" /\ bret'.rates = <<>>
              /\ bret'.msg = IF Len(batches') = 1
                             THEN "batch call cfx_getConfirmationRiskByHash error"
                             ELSE "batch call cfx_getBlockByHash error"
       /\ bret'.kind = "err" => bret'.rates = <<>>
       /\ bpc = "returned" => (bpc' = "returned" /\ bret' = bret)]_vars

\* the fallback batch failed for an input whose first hash had its risk already
C22_Witness ==
    /\ bpc = "returned" /\ bret.kind = "err"
    /\ bret.msg = "batch call cfx_getBlockByHash error"
    /\ Len(blockhashs) = 2 /\ Len(batches) = 2
    /\ DecodeBig(risks[1]).ok /\ risks[2] = EmptyString
    /\ bret.rates = <<>>

\* C23: BatchGetBlockRevertRates called with an empty blockhashs returns at once
\* an empty result and no error, and hands no batch to BatchCallRPC.
C23_EmptyInput ==
    (bpc # "idle" /\ blockhashs = <<>>) =>
        /\ bpc = "returned"
        /\ bret = [kind |-> "ok", rates |-> <<>>, msg |-> ""]
        /\ batches = <<>>
        /\ risks = <<>> /\ bElems = <<>>

\* the call with the empty input has returned
C23_Witness ==
    /\ bpc = "returned" /\ blockhashs = <<>>
    /\ bret.kind = "ok" /\ bret.rates = <<>>
    /\ batches = <<>>

\* C24: an error returned with a retry budget N > 0 used up is the wrapped error
\* of the last attempt, attempt N + 1; with budget 0 the error returned is that of
\* the first and only attempt.
C24_LastErrorWrapped ==
    (cpc = "returned" /\ ret.kind = "err") =>
        /\ rpcRequester.retryCount > 0 =>
              /\ ret.wrapped
              /\ ret.cause = attempts
              /\ ret.cause = rpcRequester.retryCount + 1
        /\ rpcRequester.retryCount = 0 =>
              /\ ret.cause = 1
              /\ attempts = 1

\* a Call with budget 3 returned the wrapped error of its fourth attempt
C24_Witness ==
    /\ cpc = "returned" /\ op = "Call"
    /\ rpcRequester.retryCount = 3
    /\ ret = [kind |-> "err", cause |-> 4, wrapped |-> TRUE]

\* C25: an attempt on the inner transport that succeeds makes Call/BatchCall
\* return nil at once; a call that has returned makes no further attempt; so a
\* call that returned nil made exactly as many attempts as it took to get the
\* first success, and with a budget N >= 0 these are at most N + 1.
C25_StopAtFirstSuccess ==
    [][/\ (attempts' = attempts + 1 /\ err' = 0) =>
              (cpc' = "returned" /\ ret' = ReturnNil)
       /\ (attempts' = attempts + 1 /\ attempts > 0) => err = attempts
       /\ cpc = "returned" => (attempts' = attempts /\ ret' = ret)
       /\ (ret'.kind = "nil" /\ rpcRequester.retryCount >= 0) =>
              (err' = 0 /\ attempts' <= rpcRequester.retryCount + 1)]_vars

\* a BatchCall with budget 3 succeeded at its second attempt and returned
C25_Witness ==
    /\ cpc = "returned" /\ op = "BatchCall"
    /\ rpcRequester.retryCount = 3
    /\ ret = ReturnNil /\ attempts = 2

\* C26: after a terminal outcome no GetTransactionByHash query is made, and a
\* polling query that returns an error ends the workflow in Failed with the
\* "get transaction receipt" error: it is not asked again.
C26_NoQueryAfterTerminal ==
    [][/\ outcome \in Terminal => (queries' = queries /\ lastAnswer' = lastAnswer)
       /\ (queries' = queries + 1 /\ lastAnswer' = "error") =>
              /\ outcome' = "Failed"
              /\ result'.Error = "get transaction receipt error"
              /\ dpc' = "deferSend"
       /\ queries' # queries => (dpc = "poll" /\ queries' = queries + 1)]_vars

\* the second polling query failed, the caller was notified and the goroutine
\* ended without a third query
C26_Witness ==
    /\ outcome = "Failed" /\ lastAnswer = "error"
    /\ queries = 2
    /\ dpc = "exited" /\ notifications = 1

\* C27: SendTransaction goes on to cfx_sendRawTransaction only when default
\* resolution returned nil, an account manager is set and signing succeeded;
\* otherwise it returns an error without sending, and DeployContract is Failed
\* with an error, TransactionHash unset, and never polls.
C27_SendAfterResolveAndSign ==
    [][/\ (dpc = "resolving" /\ dpc' # "resolving") =>
              \/ /\ dpc' = "sendRaw"
                 /\ rstatus = "ok" /\ client.accountManager = "set"
                 /\ result' = result /\ outcome' = "none"
              \/ /\ dpc' = "deferSend"
                 /\ outcome' = "Failed" /\ ~panicking'
                 /\ result'.Error # "" /\ result'.TransactionHash = {}
       /\ (dpc' = "sendRaw" /\ dpc # "sendRaw") => dpc = "resolving"
       /\ (outcome = "Failed" /\ sentAt = {}) =>
              /\ dpc' \notin {"sendRaw", "poll"}
              /\ result'.TransactionHash = {} /\ sentAt' = {}
              /\ queries' = 0]_vars

\* C28: for a hash h for which GetBlockRevertRateByHash(h) returned a rate,
\* BatchGetBlockRevertRates([h]) with no failing batch call returns without error
\* the one-element result holding the same rate, whatever the node answers for h.
C28_BatchAgreesWithSingle ==
    (/\ singleRet.kind = "ok"
     /\ blockhashs = <<singleRet.hash>>
     /\ bpc \in {"returned", "panic"} /\ ~BatchCallFailed) =>
        /\ bret.kind = "ok"
        /\ bret.rates = singleRet.rate

\* C29: from the delivery of the notification on, exactly one of Error and
\* DeployedContract is set, TransactionHash is set exactly if the send succeeded
\* (so in Confirmed, Reverted and TimedOut), and the result does not change.
C29_ResultAtNotification ==
    [][/\ notifications' = 1 =>
              /\ (result'.Error # "") # (result'.DeployedContract # {})
              /\ (result'.TransactionHash # {}) <=> (sentAt' # {})
              /\ outcome' \in {"Confirmed", "Reverted", "TimedOut"} =>
                    result'.TransactionHash = {"txhash"}
       /\ notifications = 1 => result' = result]_vars

====
